---- MODULE Spec2Model ----
(***************************************************************************)
(* Model of the authentication flow controller of office-js-helpers        *)
(* (src/src/authentication/authenticator.ts): Authenticator.authenticate,  *)
(* Authenticator.exchangeCodeForToken, the browser popup surface with its  *)
(* polling timer, the host dialog surface with its message handler, and    *)
(* Authenticator.isAuthDialog as the page inside the dialog calls it.      *)
(*                                                                         *)
(* Every JavaScript value is a record with a `kind` field, so that values  *)
(* of different shapes can be compared.  TokenManager and EndpointManager  *)
(* are not part of the sources at hand; they are modelled from the         *)
(* specification as a plain provider-keyed mapping (get/add) and as a      *)
(* provider-keyed registry.                                                *)
(***************************************************************************)
EXTENDS Naturals, Integers, Sequences, FiniteSets, TLC

VARIABLES
    tokens,     \* Token Store: provider -> token object or Null
    endpoints,  \* Endpoint Registry: provider -> endpoint or Null
    mode,       \* Authenticator.mode
    isAddin,    \* Authenticator.isAddin (memoized execution context)
    location,   \* the current page location
    now,        \* the wall clock read by `new Date()`
    calls,      \* one record per API call (authenticate / exchangeCodeForToken)
    sent,       \* what the page handed to Office.context.ui.messageParent
    returned    \* what the last call of isAuthDialog on this page returned

vars == <<tokens, endpoints, mode, isAddin, location, now, calls, sent, returned>>

----------------------------------------------------------------------------
(* Bounds *)

\* the clock runs from 0 to MaxTime
MaxTime == 1

\* a window sends at most MaxSent messages to its parent
MaxSent == 2

\* one call has at most MaxDetached requests out that no promise of the
\* caller waits for
MaxDetached == 1

\* the expiry instant carried by tokens that were persisted with an expiry
ExpiryInstant == 0

Providers == {"github", "google", "unknown"}

\* the API calls that can be in flight together; each is made once
Calls == {"a", "b"}

----------------------------------------------------------------------------
(* Values *)

Null == [kind |-> "null"]

NoExpiry == [kind |-> "none"]

\* expires_at as it comes back from persistence (a timestamp, not a Date)
RawExpiry(t) == [kind |-> "raw", time |-> t]

\* expires_at as a Date object
DateExpiry(t) == [kind |-> "date", time |-> t]

\* a JSON object: the set of result keys it carries, where it came from
\* (the cache, the surface of a call, the exchange response of a call, the
\* caller of exchangeCodeForToken) and its expires_at field
Obj(keys, from, call, exp) ==
    [kind |-> "object", keys |-> keys, from |-> from, call |-> call, expires_at |-> exp]

\* <IError>{ error: ... }: a message with what it is about, or error
\* "exception" with the exception object it wraps
IError(error, detail) == [kind |-> "IError", error |-> error, detail |-> detail]

\* a thrown exception object
Exception(name) == [kind |-> "exception", name |-> name]

AuthenticationMode == {"Dialog", "Redirect"}

\* the pages the code can be on: the application, or a provider's login URL
AppPage == [kind |-> "app"]

----------------------------------------------------------------------------
(* Collaborators *)

\* an endpoint configuration; tokenUrl may be absent
Endpoint(p, hasTokenUrl) == [kind |-> "endpoint", provider |-> p, tokenUrl |-> hasTokenUrl]

\* this.endpoints.get(provider)
EndpointsGet(reg, p) == reg[p]

\* EndpointManager.getLoginUrl(endpoint)
GetLoginUrl(endpoint) == [kind |-> "login", provider |-> endpoint.provider]

\* this.tokens.get(provider)
TokensGet(store, p) == store[p]

\* this.tokens.add(provider, token)
TokensAdd(store, p, token) == [store EXCEPT ![p] = token]

\* TokenManager.getToken(url, redirectUrl): the parameters of the URL as one
\* object when it carries access_token, code or error, nothing otherwise
GetToken(params, c) ==
    IF params \cap {"access_token", "code", "error"} = {}
    THEN Null
    ELSE Obj(params, "surface", c, NoExpiry)

----------------------------------------------------------------------------
(* Authenticator.authenticate: the cache check *)

\* token.expires_at instanceof Date ? token.expires_at : new Date(token.expires_at)
ExpiresAtAsDate(e) == IF e.kind = "date" THEN e ELSE DateExpiry(e.time)

\* the expiry test with the boundary instant counted as expired
HasExpired_inclusive(e, t) == e.time - t <= 0

\* token.expires_at.getTime() - new Date().getTime() < 0
HasExpired(e, t) == e.time - t < 0

\* the token as authenticate holds it after normalising expires_at
NormalisedToken(token) ==
    IF token.expires_at.kind # "none"
    THEN [token EXCEPT !.expires_at = ExpiresAtAsDate(token.expires_at)]
    ELSE token

\* the expiry test without `force = true`
ForceAfterExpiry_unforced(token, force, t) == force

\* the value of `force` after the expiry test
ForceAfterExpiry(token, force, t) ==
    IF token.expires_at.kind # "none" /\ HasExpired(ExpiresAtAsDate(token.expires_at), t)
    THEN TRUE
    ELSE force

\* the cache answer only given for a token that carries an expires_at
AnswersFromCache_needsExpiry(token, force, t) ==
    /\ token # Null
    /\ token.expires_at.kind # "none"
    /\ ~ForceAfterExpiry(token, force, t)

\* whether authenticate answers from the cache
AnswersFromCache(token, force, t) ==
    /\ token # Null
    /\ ~ForceAfterExpiry(token, force, t)

----------------------------------------------------------------------------
(* Call records *)

\* the popup's document: the provider's login page (cross-origin), or the
\* redirect URL with the result parameters it carries
LoginDoc == [kind |-> "login", params |-> {}]
RedirectDoc(params) == [kind |-> "redirect", params |-> params]
NoDoc == [kind |-> "none", params |-> {}]

\* the parameter sets a redirect URL can carry
RedirectParams == {{}, {"code"}, {"access_token"}, {"error"}, {"code", "access_token"}}

\* the record of a call that was not made yet
IdleCall ==
    [api |-> "none", provider |-> "none",
     promise |-> "none", value |-> Null,
     win |-> "none", wid |-> "none", doc |-> NoDoc, timer |-> FALSE,
     dialog |-> "none", xhr |-> "none", detached |-> 0, log |-> <<>>]

\* the promise was resolved with the promise of an exchange whose request is
\* still out: it follows that promise and nothing else
Locked(call) == call.xhr \in {"sent", "fault"}

\* resolve(v) / reject(v): only the first settlement of a promise counts
Resolve(call, v) ==
    IF call.promise = "pending" /\ ~Locked(call)
    THEN [call EXCEPT !.promise = "resolved", !.value = v]
    ELSE call

Reject(call, v) ==
    IF call.promise = "pending" /\ ~Locked(call)
    THEN [call EXCEPT !.promise = "rejected", !.value = v]
    ELSE call

\* the log of a call: the events it went through, each where it first happened
Logged(call, event) ==
    IF \E i \in 1..Len(call.log) : call.log[i] = event
    THEN call
    ELSE [call EXCEPT !.log = Append(@, event)]

----------------------------------------------------------------------------
(* Authenticator.exchangeCodeForToken *)

\* the rejection for a non-200 status: 'Request failed. ' + xhr.response
RequestFailed(body) == IError("Request failed.", body)

\* xhr.send: the caller's promise waits for this request when it is the first
\* the call hands to the exchange before it settled; the promise of a later
\* exchange is one that resolve() no longer listens to
Posted(call) ==
    IF call.promise = "pending" /\ call.xhr = "none"
    THEN Logged([call EXCEPT !.xhr = "sent"], "post")
    ELSE Logged([call EXCEPT !.detached = @ + 1], "post")

\* the executor without the test for a missing tokenUrl
ExchangeCodeForToken_alwaysPosts(call, endpoint, data) ==
    IF endpoint = Null
    THEN Reject(call, Exception("TypeError"))
    ELSE Posted(call)

\* the promise executor of exchangeCodeForToken, up to xhr.send
ExchangeCodeForToken(call, endpoint, data) ==
    IF endpoint = Null
    THEN Reject(call, Exception("TypeError"))
    ELSE IF ~endpoint.tokenUrl
    THEN Resolve(call, data)
    ELSE Posted(call)

\* a response body: text that is not JSON, JSON for a primitive, or JSON for
\* an object with the given keys
Body(text, keys) == [kind |-> "body", text |-> text, keys |-> keys]

OkStatus == 200

\* the responses the token URL can answer with
Responses ==
    {[status |-> OkStatus, body |-> b] :
        b \in {Body("malformed", {}), Body("primitive", {}),
               Body("object", {"access_token"}), Body("object", {"error"})}}
    \cup {[status |-> 401, body |-> b] : b \in {Body("malformed", {}), Body("object", {"error"})}}

\* JSON.parse(xhr.responseText) for a body that is JSON
ParsedBody(body, c) == Obj(body.keys, "xhr", c, NoExpiry)

\* the onload handler looking for a `token` key
OnloadStores_wrongKey(status, body) ==
    status = OkStatus /\ body.text = "object" /\ "token" \in body.keys

\* the onload handler storing whatever object a 200 response carries
OnloadStores_anyObject(status, body) ==
    status = OkStatus /\ body.text = "object"

\* whether the onload handler stores the parsed response
OnloadStores(status, body) ==
    status = OkStatus /\ body.text = "object" /\ "access_token" \in body.keys

\* the settlement made by the onload handler
OnloadSettles(call, c, status, body) ==
    IF status = OkStatus
    THEN IF body.text = "malformed" THEN Reject(call, IError("exception", Exception("SyntaxError")))
         ELSE IF body.text = "primitive" THEN Reject(call, IError("exception", Exception("TypeError")))
         ELSE IF "access_token" \in body.keys THEN Resolve(call, ParsedBody(body, c))
         ELSE Reject(call, ParsedBody(body, c))
    ELSE Reject(call, RequestFailed(body))

----------------------------------------------------------------------------
(* Authenticator.authenticate *)

\* <IError>{ error: `No such registered endpoint: ${provider} could be found.` }
NoSuchEndpoint(p) == IError("No such registered endpoint", [kind |-> "provider", provider |-> p])

\* the rejection reason in Redirect mode: the arrow function itself, which
\* nothing ever calls
RedirectReason(endpoint) == [kind |-> "function", provider |-> endpoint.provider]

\* the page location after authenticate returned in Redirect mode
LocationAfterRedirect(loc, endpoint) == loc

\* <IError>{ error: 'No access_token or code could be parsed.' }
NoTokenParsed == IError("No access_token or code could be parsed.", Null)

\* window.open given one fixed name for every provider
WindowName_oneName(endpoint) == "AUTH"

\* the name window.open is given: endpoint.provider.toUpperCase() (the
\* provider names of the model differ in more than case)
WindowName(endpoint) == endpoint.provider

\* the calls other than c whose popup is open under the endpoint's window name
OpenUnderName(endpoint, c) ==
    {d \in Calls \ {c} :
        /\ calls[d].win = "open"
        /\ WindowName(EndpointsGet(endpoints, calls[d].provider)) = WindowName(endpoint)}

\* the window window.open returns: the open window of that name when there is
\* one, else a new window (named here after the call that opened it)
WindowOpened(endpoint, c) ==
    IF OpenUnderName(endpoint, c) = {}
    THEN c
    ELSE calls[CHOOSE d \in OpenUnderName(endpoint, c) : TRUE].wid

\* calls c and d hold the same window
SameWindow(c, d) == calls[c].wid # "none" /\ calls[c].wid = calls[d].wid

\* _openInWindowPopup with the missing window noticed before the timer is set
OpenInWindowPopup_rejectsAtOnce(call, c, endpoint, opened) ==
    IF opened
    THEN Logged([call EXCEPT !.win = "open", !.wid = WindowOpened(endpoint, c),
                             !.doc = LoginDoc, !.timer = TRUE], "open")
    ELSE Reject([call EXCEPT !.win = "blocked"], IError("exception", Exception("TypeError")))

\* _openInWindowPopup up to the return of the promise: window.open and
\* setInterval; window.open yields no window when the popup is blocked
OpenInWindowPopup(call, c, endpoint, opened) ==
    IF opened
    THEN Logged([call EXCEPT !.win = "open", !.wid = WindowOpened(endpoint, c),
                             !.doc = LoginDoc, !.timer = TRUE], "open")
    ELSE [call EXCEPT !.win = "blocked", !.timer = TRUE]

\* _openInDialog up to the return of the promise: displayDialogAsync is called
OpenInDialog(call, endpoint) == [call EXCEPT !.dialog = "opening"]

\* authenticate with the mode looked at before the registry
AuthenticateCall_modeFirst(c, p, force, opened) ==
    LET token == TokensGet(tokens, p)
        endpoint == EndpointsGet(endpoints, p)
        call == [IdleCall EXCEPT !.api = "authenticate", !.provider = p,
                                 !.promise = "pending", !.log = <<"cache">>]
    IN  IF AnswersFromCache(token, force, now) THEN Resolve(call, NormalisedToken(token))
        ELSE IF mode = "Redirect" THEN Reject(call, [kind |-> "function", provider |-> p])
        ELSE IF endpoint = Null THEN Reject(call, NoSuchEndpoint(p))
        ELSE IF isAddin THEN OpenInDialog(call, endpoint)
        ELSE OpenInWindowPopup(call, c, endpoint, opened)

\* the call record authenticate(provider, force) leaves behind
AuthenticateCall(c, p, force, opened) ==
    LET token == TokensGet(tokens, p)
        endpoint == EndpointsGet(endpoints, p)
        call == [IdleCall EXCEPT !.api = "authenticate", !.provider = p,
                                 !.promise = "pending", !.log = <<"cache">>]
    IN  IF AnswersFromCache(token, force, now) THEN Resolve(call, NormalisedToken(token))
        ELSE IF endpoint = Null THEN Reject(call, NoSuchEndpoint(p))
        ELSE IF mode = "Redirect" THEN Reject(call, RedirectReason(endpoint))
        ELSE IF isAddin THEN OpenInDialog(call, endpoint)
        ELSE OpenInWindowPopup(call, c, endpoint, opened)

\* the page location authenticate(provider, force) leaves behind
AuthenticateLocation(p, force) ==
    IF /\ ~AnswersFromCache(TokensGet(tokens, p), force, now)
       /\ EndpointsGet(endpoints, p) # Null
       /\ mode = "Redirect"
    THEN LocationAfterRedirect(location, EndpointsGet(endpoints, p))
    ELSE location

Authenticate(c, p, force) ==
    /\ calls[c].api = "none"
    /\ \E opened \in (IF isAddin \/ mode = "Redirect" THEN {TRUE} ELSE BOOLEAN) :
         LET call == AuthenticateCall(c, p, force, opened)
         IN  calls' = [d \in Calls |->
                         IF d = c THEN call
                         ELSE IF call.wid = calls[d].wid /\ calls[d].win = "open"
                         THEN [calls[d] EXCEPT !.doc = LoginDoc]
                         ELSE calls[d]]
    /\ location' = AuthenticateLocation(p, force)
    /\ UNCHANGED <<tokens, endpoints, mode, isAddin, now, sent, returned>>

----------------------------------------------------------------------------
(* The browser popup surface: _openInWindowPopup *)

\* the timer callback without popupWindow.close()
PopupClosedByCode_leftOpen(call) == call

\* popupWindow.close() once the redirect URL was seen
PopupClosedByCode(call) == [call EXCEPT !.win = "closed"]

\* clearInterval(interval)
IntervalCleared(call) == [call EXCEPT !.timer = FALSE]

\* whether the timer callback stores the parsed result itself
PopupStores(result) ==
    result # Null /\ "code" \notin result.keys /\ "access_token" \in result.keys

\* the classification with access_token tested before code
PopupResult_tokenFirst(call, endpoint, result) ==
    IF result = Null THEN Reject(call, NoTokenParsed)
    ELSE IF "access_token" \in result.keys THEN Resolve(Logged(call, "store"), result)
    ELSE IF "code" \in result.keys THEN ExchangeCodeForToken(call, endpoint, result)
    ELSE Reject(call, result)

\* the timer callback once the redirect URL was seen and the popup closed
PopupResult(call, endpoint, result) ==
    IF result = Null THEN Reject(call, NoTokenParsed)
    ELSE IF "code" \in result.keys THEN ExchangeCodeForToken(call, endpoint, result)
    ELSE IF "access_token" \in result.keys THEN Resolve(Logged(call, "store"), result)
    ELSE Reject(call, result)

\* whether popupWindow.document.URL shows the redirect URL to the callback:
\* it does in an open window that reached it; in a window that another call
\* holding it has just closed, the document can still be there or be gone
ShowsRedirect(call, readable) ==
    /\ call.doc.kind = "redirect"
    /\ call.win = "open" \/ (call.win = "closed" /\ readable)

\* one run of the setInterval callback
PollPopup(call, c, endpoint, readable) ==
    IF ShowsRedirect(call, readable)
    THEN PopupResult(Logged(PopupClosedByCode(IntervalCleared(call)), "parse"),
                     endpoint, GetToken(call.doc.params, c))
    ELSE IF call.win = "blocked"
    THEN Reject(IntervalCleared(call), IError("exception", Exception("TypeError")))
    ELSE call

PopupTick(c) ==
    LET call == calls[c]
        endpoint == EndpointsGet(endpoints, call.provider)
        result == GetToken(call.doc.params, c)
    IN  /\ call.timer
        /\ \E readable \in (IF call.win = "closed" THEN BOOLEAN ELSE {TRUE}) :
             /\ calls' = [d \in Calls |->
                             IF d = c THEN PollPopup(call, c, endpoint, readable)
                             ELSE IF ShowsRedirect(call, readable) /\ SameWindow(c, d)
                             THEN PopupClosedByCode(calls[d])
                             ELSE calls[d]]
             /\ tokens' = IF ShowsRedirect(call, readable) /\ PopupStores(result)
                          THEN TokensAdd(tokens, endpoint.provider, result)
                          ELSE tokens
        /\ UNCHANGED <<endpoints, mode, isAddin, location, now, sent, returned>>

\* the user completes (or abandons) the login: the popup reaches the redirect URL
PopupNavigates(c, params) ==
    /\ calls[c].win = "open"
    /\ calls[c].doc.kind = "login"
    /\ calls' = [d \in Calls |->
                    IF SameWindow(c, d) THEN [calls[d] EXCEPT !.doc = RedirectDoc(params)]
                    ELSE calls[d]]
    /\ UNCHANGED <<tokens, endpoints, mode, isAddin, location, now, sent, returned>>

\* the user closes the popup window
UserClosesPopup(c) ==
    /\ calls[c].win = "open"
    /\ calls' = [d \in Calls |->
                    IF SameWindow(c, d) THEN [calls[d] EXCEPT !.win = "userClosed"]
                    ELSE calls[d]]
    /\ UNCHANGED <<tokens, endpoints, mode, isAddin, location, now, sent, returned>>

----------------------------------------------------------------------------
(* The host dialog surface: _openInDialog *)

\* the messages the dialog page can send: no message, the empty string, text
\* that is not JSON, JSON for a primitive (null, a number), JSON for an object
Messages ==
    {[kind |-> "message", text |-> t, keys |-> {}] : t \in {"null", "empty", "malformed", "primitive"}}
    \cup {[kind |-> "message", text |-> "object", keys |-> k] :
            k \in {{}, {"code"}, {"access_token"}, {"error"}, {"code", "access_token"}}}

\* JSON.parse(args.message) for a message that is JSON for an object
ParsedMessage(msg, c) == Obj(msg.keys, "surface", c, NoExpiry)

\* dialog.close() at the head of the message handler
DialogClosedByCode(call) == [call EXCEPT !.dialog = "closed"]

\* the handler with tokens.add ahead of every test of the message
DialogStores_beforeParse(msg) == TRUE

\* whether the message handler stores the parsed message itself
DialogStores(msg) ==
    msg.text = "object" /\ "code" \notin msg.keys /\ "access_token" \in msg.keys

\* the body of the message handler after dialog.close()
DialogResult(call, c, endpoint, msg) ==
    IF msg.text \in {"null", "empty"} THEN Reject(call, NoTokenParsed)
    ELSE IF msg.text = "malformed"
    THEN Reject(Logged(call, "parse"), IError("exception", Exception("SyntaxError")))
    ELSE IF msg.text = "primitive"
    THEN Reject(Logged(call, "parse"), IError("exception", Exception("TypeError")))
    ELSE IF "code" \in msg.keys
    THEN ExchangeCodeForToken(Logged(call, "parse"), endpoint, ParsedMessage(msg, c))
    ELSE IF "access_token" \in msg.keys
    THEN Resolve(Logged(Logged(call, "parse"), "store"), ParsedMessage(msg, c))
    ELSE Reject(Logged(call, "parse"), ParsedMessage(msg, c))

\* the callback of displayDialogAsync: with a dialog it registers the message
\* handler; without one, dialog.addEventHandler throws inside the callback
DialogCallback(call, ok) ==
    IF ok THEN Logged([call EXCEPT !.dialog = "open"], "open")
    ELSE [call EXCEPT !.dialog = "failed"]

DialogOpened(c) ==
    /\ calls[c].dialog = "opening"
    /\ \E ok \in BOOLEAN : calls' = [calls EXCEPT ![c] = DialogCallback(calls[c], ok)]
    /\ UNCHANGED <<tokens, endpoints, mode, isAddin, location, now, sent, returned>>

\* the DialogMessageReceived handler; it stays registered after dialog.close(),
\* so it runs for every message the host still delivers
DialogMessage(c, msg) ==
    LET call == calls[c]
        endpoint == EndpointsGet(endpoints, call.provider)
    IN  /\ call.dialog \in {"open", "closed"}
        /\ call.detached < MaxDetached
        /\ calls' = [calls EXCEPT ![c] = DialogResult(DialogClosedByCode(call), c, endpoint, msg)]
        /\ tokens' = IF DialogStores(msg)
                     THEN TokensAdd(tokens, endpoint.provider, ParsedMessage(msg, c))
                     ELSE tokens
        /\ UNCHANGED <<endpoints, mode, isAddin, location, now, sent, returned>>

\* the user closes the dialog; no handler is registered for that event
UserClosesDialog(c) ==
    /\ calls[c].dialog = "open"
    /\ calls' = [calls EXCEPT ![c].dialog = "userClosed"]
    /\ UNCHANGED <<tokens, endpoints, mode, isAddin, location, now, sent, returned>>

----------------------------------------------------------------------------
(* The exchange request *)

\* exchangeCodeForToken called by the application itself
ExchangeCall(c, p) ==
    LET call == [IdleCall EXCEPT !.api = "exchange", !.provider = p, !.promise = "pending"]
    IN  /\ calls[c].api = "none"
        /\ calls' = [calls EXCEPT ![c] =
                        ExchangeCodeForToken(call, EndpointsGet(endpoints, p),
                                             Obj({"code"}, "caller", c, NoExpiry))]
        /\ UNCHANGED <<tokens, endpoints, mode, isAddin, location, now, sent, returned>>

\* xhr.onload
XhrLoad(c, status, body) ==
    LET call == calls[c]
        endpoint == EndpointsGet(endpoints, call.provider)
        loaded == [call EXCEPT !.xhr = "loaded"]
    IN  /\ call.xhr = "sent"
        /\ calls' = [calls EXCEPT ![c] =
                        OnloadSettles(IF OnloadStores(status, body) THEN Logged(loaded, "store") ELSE loaded,
                                      c, status, body)]
        /\ tokens' = IF OnloadStores(status, body)
                     THEN TokensAdd(tokens, endpoint.provider, ParsedBody(body, c))
                     ELSE tokens
        /\ UNCHANGED <<endpoints, mode, isAddin, location, now, sent, returned>>

\* the request ends without a response (network error, abort, timeout): the
\* browser fires `error`, for which no handler is set
XhrFault(c) ==
    /\ calls[c].xhr = "sent"
    /\ calls' = [calls EXCEPT ![c].xhr = "fault"]
    /\ UNCHANGED <<tokens, endpoints, mode, isAddin, location, now, sent, returned>>

\* xhr.onload of a request whose promise the call does not wait for
DetachedXhrLoad(c, status, body) ==
    LET call == calls[c]
        endpoint == EndpointsGet(endpoints, call.provider)
        loaded == [call EXCEPT !.detached = @ - 1]
    IN  /\ call.detached > 0
        /\ calls' = [calls EXCEPT ![c] =
                        IF OnloadStores(status, body) THEN Logged(loaded, "store") ELSE loaded]
        /\ tokens' = IF OnloadStores(status, body)
                     THEN TokensAdd(tokens, endpoint.provider, ParsedBody(body, c))
                     ELSE tokens
        /\ UNCHANGED <<endpoints, mode, isAddin, location, now, sent, returned>>

\* such a request ends without a response
DetachedXhrFault(c) ==
    /\ calls[c].detached > 0
    /\ calls' = [calls EXCEPT ![c].detached = @ - 1]
    /\ UNCHANGED <<tokens, endpoints, mode, isAddin, location, now, sent, returned>>

----------------------------------------------------------------------------
(* The page inside the dialog: isAuthDialog *)

\* a page URL: the result parameters it carries, and whether the text
\* access_token, code or error occurs in it anywhere else (host, path, the
\* name or value of another parameter)
Url(params, mention) == [kind |-> "url", params |-> params, mention |-> mention]

\* isTokenUrl: /(access_token|code|error)/gi tested against the whole URL
IsTokenUrl(url) ==
    \/ url.params \cap {"access_token", "code", "error"} # {}
    \/ url.mention

\* JSON.stringify(token): the text "null" for no token, else the object's JSON
Stringified(token) ==
    IF token = Null
    THEN [kind |-> "message", text |-> "primitive", keys |-> {}]
    ELSE [kind |-> "message", text |-> "object", keys |-> token.keys]

\* the return value of isAuthDialog
IsAuthDialogReturns(addin, url) == addin /\ IsTokenUrl(url)

\* Authenticator.isAuthDialog(), called once by a page after it loaded
IsAuthDialog ==
    /\ location.kind = "url"
    /\ returned = "none"
    /\ returned' = IF IsAuthDialogReturns(isAddin, location) THEN "true" ELSE "false"
    /\ sent' = IF IsAuthDialogReturns(isAddin, location)
               THEN Append(sent, Stringified(GetToken(location.params, "none")))
               ELSE sent
    /\ UNCHANGED <<tokens, endpoints, mode, isAddin, location, now, calls>>

\* the window loads another page (the provider redirects, the user navigates)
PageLoads(url) ==
    /\ location.kind = "url"
    /\ returned # "none"
    /\ Len(sent) < MaxSent
    /\ location' = url
    /\ returned' = "none"
    /\ UNCHANGED <<tokens, endpoints, mode, isAddin, now, calls, sent>>

----------------------------------------------------------------------------
(* The system *)

Tick ==
    /\ now < MaxTime
    /\ now' = now + 1
    /\ UNCHANGED <<tokens, endpoints, mode, isAddin, location, calls, sent, returned>>

\* a token as a previous session persisted it
CachedToken(exp) == Obj({"access_token"}, "cache", "none", exp)

CachedTokens == {CachedToken(RawExpiry(ExpiryInstant)), CachedToken(DateExpiry(ExpiryInstant))}

\* the registry the application set up: a provider with a token URL (code
\* flow), one without (implicit flow), and a name that was never registered
Registry ==
    [p \in Providers |->
        IF p = "github" THEN Endpoint(p, TRUE)
        ELSE IF p = "google" THEN Endpoint(p, FALSE)
        ELSE Null]

\* the stores a previous session can have left: empty, or one token
CachedStores ==
    {[p \in Providers |-> Null]}
    \cup {[p \in Providers |-> IF p = q THEN t ELSE Null] : q \in Providers, t \in CachedTokens}

Init ==
    /\ tokens \in CachedStores
    /\ endpoints = Registry
    /\ mode \in AuthenticationMode
    /\ isAddin \in BOOLEAN
    /\ location = AppPage
    /\ now = 0
    /\ calls = [c \in Calls |-> IdleCall]
    /\ sent = <<>>
    /\ returned = "none"

Next ==
    \/ \E c \in Calls, p \in Providers, force \in BOOLEAN : Authenticate(c, p, force)
    \/ \E c \in Calls, p \in Providers : ExchangeCall(c, p)
    \/ \E c \in Calls : PopupTick(c)
    \/ \E c \in Calls, params \in RedirectParams : PopupNavigates(c, params)
    \/ \E c \in Calls : UserClosesPopup(c)
    \/ \E c \in Calls : DialogOpened(c)
    \/ \E c \in Calls, msg \in Messages : DialogMessage(c, msg)
    \/ \E c \in Calls : UserClosesDialog(c)
    \/ \E c \in Calls, r \in Responses : XhrLoad(c, r.status, r.body)
    \/ \E c \in Calls : XhrFault(c)
    \/ \E c \in Calls, r \in Responses : DetachedXhrLoad(c, r.status, r.body)
    \/ \E c \in Calls : DetachedXhrFault(c)
    \/ Tick

Spec == Init /\ [][Next]_vars

\* the parameter sets a page URL can carry
PageParams == RedirectParams \cup {{"state"}}

PageUrls == {Url(k, m) : k \in PageParams, m \in BOOLEAN}

\* a page that loaded in a window of its own, inside a host dialog or not
PageInit ==
    /\ tokens = [p \in Providers |-> Null]
    /\ endpoints = Registry
    /\ mode = "Dialog"
    /\ isAddin \in BOOLEAN
    /\ location \in PageUrls
    /\ now = 0
    /\ calls = [c \in Calls |-> IdleCall]
    /\ sent = <<>>
    /\ returned = "none"

PageNext ==
    \/ IsAuthDialog
    \/ \E url \in PageUrls : PageLoads(url)

PageSpec == PageInit /\ [][PageNext]_vars

\* a first session: nothing is cached yet, and the mode is the default
FirstInit ==
    /\ tokens = [p \in Providers |-> Null]
    /\ endpoints = Registry
    /\ mode = "Dialog"
    /\ isAddin \in BOOLEAN
    /\ location = AppPage
    /\ now = 0
    /\ calls = [c \in Calls |-> IdleCall]
    /\ sent = <<>>
    /\ returned = "none"

\* the event loop runs every callback that is due
FairSpec == FirstInit /\ [][Next]_vars /\ WF_vars(Next)

----------------------------------------------------------------------------
(* Vocabulary of the properties *)

\* the token's expiry lies before instant t
IsExpiredAt(token, t) == token.expires_at.kind # "none" /\ token.expires_at.time < t

\* provider p holds a cached token that has not expired
HasFreshToken(p) == tokens[p] # Null /\ ~IsExpiredAt(tokens[p], now)

\* provider p holds a cached token that has expired
HasExpiredToken(p) == tokens[p] # Null /\ IsExpiredAt(tokens[p], now)

\* v is token T: the same object, its expiry the same instant
SameToken(v, T) ==
    /\ v.kind = "object"
    /\ v.keys = T.keys /\ v.from = T.from /\ v.call = T.call
    /\ (v.expires_at.kind = "none") = (T.expires_at.kind = "none")
    /\ v.expires_at.kind # "none" => v.expires_at.time = T.expires_at.time

\* the call neither opened nor asked for a popup or a dialog
NoSurface(call) == call.win = "none" /\ call.dialog = "none"

Settled(call) == call.promise \in {"resolved", "rejected"}

\* the call answered from the cache
ResolvedFromCache(call) ==
    call.promise = "resolved" /\ call.value.kind = "object" /\ call.value.from = "cache"

----------------------------------------------------------------------------
(* Properties *)

\* C1: authenticate(P) with force=false on a provider whose cached token T has
\* not expired resolves with T in the same step, opens no popup or dialog,
\* leaves the page location alone and sends no request.
C1_FreshTokenAnswered ==
    [][\A c \in Calls, p \in Providers :
         (Authenticate(c, p, FALSE) /\ HasFreshToken(p))
         => /\ calls'[c].promise = "resolved"
            /\ SameToken(calls'[c].value, tokens[p])
            /\ NoSurface(calls'[c])
            /\ calls'[c].xhr = "none"
            /\ location' = location
            /\ tokens' = tokens]_vars

\* C1 witness: a call was answered from the cache, as only an unforced call
\* is, without a surface, while the store holds that token unexpired
C1_Witness ==
    \E c \in Calls :
        /\ calls[c].api = "authenticate"
        /\ HasFreshToken(calls[c].provider)
        /\ SameToken(calls[c].value, tokens[calls[c].provider])
        /\ ResolvedFromCache(calls[c])
        /\ NoSurface(calls[c])

\* C2: with an expired cached token, every step authenticate(P, false) can take
\* is a step authenticate(P, true) can take from the same state (the same call
\* record with its surface and outcome, the same store and location), and it
\* does not answer with the expired token.
C2_ExpiredActsAsForced ==
    [][\A c \in Calls, p \in Providers :
         (Authenticate(c, p, FALSE) /\ HasExpiredToken(p))
         => /\ Authenticate(c, p, TRUE)
            /\ tokens' = tokens
            /\ ~ResolvedFromCache(calls'[c])]_vars

\* C2 witness: a call is waiting on its surface while the store still holds
\* the expired cached token of its provider
C2_Witness ==
    \E c \in Calls :
        /\ calls[c].api = "authenticate"
        /\ calls[c].promise = "pending"
        /\ ~NoSurface(calls[c])
        /\ tokens[calls[c].provider] # Null
        /\ tokens[calls[c].provider].from = "cache"
        /\ IsExpiredAt(tokens[calls[c].provider], now)

\* C3 as stated: authenticate for an unregistered provider rejects with the
\* no-such-endpoint error and opens no surface, whatever the force flag and
\* whatever the store holds.
C3_UnregisteredAlwaysRejects ==
    [][\A c \in Calls, p \in Providers, force \in BOOLEAN :
         (Authenticate(c, p, force) /\ endpoints[p] = Null)
         => /\ calls'[c].promise = "rejected"
            /\ calls'[c].value = IError("No such registered endpoint", [kind |-> "provider", provider |-> p])
            /\ NoSurface(calls'[c])]_vars

\* C3 amended: authenticate for an unregistered provider never opens a surface;
\* it rejects with the no-such-endpoint error, except that an unforced call
\* finding a cached token that has not expired resolves with that token.
C3_UnregisteredRejectsUnlessCached ==
    [][\A c \in Calls, p \in Providers, force \in BOOLEAN :
         (/\ endpoints[p] = Null
          /\ calls[c].api = "none"
          /\ calls'[c].api = "authenticate"
          /\ Authenticate(c, p, force))
         => /\ NoSurface(calls'[c])
            /\ calls'[c].xhr = "none"
            /\ IF ~force /\ HasFreshToken(p)
               THEN calls'[c].promise = "resolved" /\ SameToken(calls'[c].value, tokens[p])
               ELSE /\ calls'[c].promise = "rejected"
                    /\ calls'[c].value =
                         IError("No such registered endpoint", [kind |-> "provider", provider |-> p])]_vars

\* C3 witness: a call for an unregistered provider was rejected with the
\* no-such-endpoint error although the store holds a token under that name
C3_Witness ==
    \E c \in Calls :
        /\ calls[c].api = "authenticate"
        /\ endpoints[calls[c].provider] = Null
        /\ tokens[calls[c].provider] # Null
        /\ calls[c].promise = "rejected"
        /\ calls[c].value.kind = "IError"
        /\ calls[c].value.error = "No such registered endpoint"

\* C4: in Redirect mode a call that gets past the cache check for a registered
\* provider rejects with an error object saying the page is redirecting, and
\* the page location has become the provider's login URL.
C4_RedirectReplacesLocation ==
    [][\A c \in Calls, p \in Providers, force \in BOOLEAN :
         (/\ Authenticate(c, p, force)
          /\ mode = "Redirect"
          /\ endpoints[p] # Null
          /\ ~(~force /\ HasFreshToken(p)))
         => /\ calls'[c].promise = "rejected"
            /\ calls'[c].value.kind = "IError"
            /\ location' = [kind |-> "login", provider |-> p]]_vars

\* C5: a call whose promise has settled after its surface was opened has that
\* surface closed.
C5_SettledMeansClosed ==
    \A c \in Calls :
        (Settled(calls[c]) /\ calls[c].api = "authenticate")
        => /\ calls[c].win # "open"
           /\ calls[c].dialog # "open"

\* C5 witness: a call was rejected after its popup had been opened, and the
\* popup is closed
C5_Witness ==
    \E c \in Calls :
        /\ calls[c].promise = "rejected"
        /\ calls[c].win = "closed"
        /\ calls[c].log = <<"cache", "open", "parse">>

\* this step is the timer callback of call c finding the popup on the redirect URL
PopupYields(c) ==
    /\ calls[c].win = "open"
    /\ calls[c].doc.kind = "redirect"
    /\ calls'[c].win = "closed"
    /\ PopupTick(c)

\* the payload was handed to exchangeCodeForToken: the request is out and the
\* promise waits for it, or, without a token URL, the promise resolved with
\* the payload; the store is untouched
HandedToExchange(c, payload) ==
    /\ tokens' = tokens
    /\ IF endpoints[calls[c].provider].tokenUrl
       THEN calls'[c].xhr = "sent" /\ calls'[c].promise = "pending"
       ELSE calls'[c].xhr = "none" /\ calls'[c].promise = "resolved" /\ calls'[c].value = payload

\* what becomes of a payload object by the keys it carries
Classified(c, payload) ==
    IF "code" \in payload.keys THEN HandedToExchange(c, payload)
    ELSE IF "access_token" \in payload.keys
    THEN /\ calls'[c].promise = "resolved"
         /\ calls'[c].value = payload
         /\ tokens' = [tokens EXCEPT ![calls[c].provider] = payload]
    ELSE /\ calls'[c].promise = "rejected"
         /\ calls'[c].value = payload
         /\ tokens' = tokens

RejectsWith(c, reason) ==
    /\ calls'[c].promise = "rejected"
    /\ calls'[c].value = reason
    /\ tokens' = tokens

NoTokenParsedError == IError("No access_token or code could be parsed.", Null)

\* the payload object a surface of call c yields with the given keys
SurfacePayload(c, keys) == Obj(keys, "surface", c, NoExpiry)

\* a request handed over by a surface settles the call that is waiting for it
ExchangeOutcomeAdopted(c) ==
    (calls[c].api = "authenticate" /\ calls[c].xhr = "sent" /\ calls'[c].xhr = "loaded")
    => /\ Settled(calls'[c])
       /\ calls'[c].value.kind = "object" => calls'[c].value.from = "xhr"

\* C6 as stated: popup and dialog classify a payload alike: code goes to the
\* exchange, access_token is stored and resolved with, a payload with neither
\* is the rejection reason, and an empty or unparseable payload rejects with
\* the nothing-could-be-parsed error.
C6_ClassifiedAlike ==
    [][\A c \in Calls :
         /\ PopupYields(c) =>
              IF calls[c].doc.params = {}
              THEN RejectsWith(c, NoTokenParsedError)
              ELSE Classified(c, SurfacePayload(c, calls[c].doc.params))
         /\ \A msg \in Messages : (calls[c].dialog = "open" /\ DialogMessage(c, msg)) =>
              IF msg.text = "object"
              THEN Classified(c, SurfacePayload(c, msg.keys))
              ELSE RejectsWith(c, NoTokenParsedError)
         /\ ExchangeOutcomeAdopted(c)]_vars

\* C6 amended: as stated, except that a dialog message that is not JSON, or is
\* JSON for something other than an object, rejects with an error wrapping the
\* exception raised (SyntaxError, TypeError); only an absent or empty message,
\* and a popup URL without result parameters, reject with the
\* nothing-could-be-parsed error.
C6_ClassifiedAlikeButParseErrors ==
    [][\A c \in Calls :
         /\ PopupYields(c) =>
              IF calls[c].doc.params = {}
              THEN RejectsWith(c, NoTokenParsedError)
              ELSE Classified(c, SurfacePayload(c, calls[c].doc.params))
         /\ \A msg \in Messages :
              (/\ calls[c].dialog = "open"
               /\ calls'[c].dialog = "closed"
               /\ DialogMessage(c, msg)) =>
              CASE msg.text = "object" -> Classified(c, SurfacePayload(c, msg.keys))
                [] msg.text \in {"null", "empty"} -> RejectsWith(c, NoTokenParsedError)
                [] msg.text = "malformed" ->
                     RejectsWith(c, IError("exception", Exception("SyntaxError")))
                [] msg.text = "primitive" ->
                     RejectsWith(c, IError("exception", Exception("TypeError")))
         /\ ExchangeOutcomeAdopted(c)]_vars

\* C6 witness: a dialog call was rejected with the wrapped parse exception
C6_Witness ==
    \E c \in Calls :
        /\ calls[c].dialog = "closed"
        /\ calls[c].promise = "rejected"
        /\ calls[c].value = IError("exception", Exception("SyntaxError"))

\* the positions of an event in a call's log
Positions(log, event) == {i \in 1..Len(log) : log[i] = event}

\* the events of one authenticate call are in order: the cache check first,
\* every parse after the opening of the surface, every store after a parse
LogOrdered(call) ==
    call.api = "authenticate" =>
        /\ Positions(call.log, "cache") = {1}
        /\ \A j \in Positions(call.log, "open") : j > 1
        /\ \A j \in Positions(call.log, "parse") :
             \E i \in Positions(call.log, "open") : i < j
        /\ \A j \in Positions(call.log, "store") :
             \E i \in Positions(call.log, "parse") : i < j

\* this step writes the store on behalf of call c
WritesStore(c) ==
    /\ Positions(calls'[c].log, "store") # {}
    /\ \E p \in Providers : tokens'[p] # tokens[p] /\ tokens'[p].call = c

C8_ExchangeStoresToken ==
    [][\A c \in Calls, r \in Responses :
         (/\ r.status = 200 /\ r.body.text = "object" /\ "access_token" \in r.body.keys
          /\ XhrLoad(c, r.status, r.body))
         => /\ calls'[c].promise = "resolved"
            /\ calls'[c].value = Obj(r.body.keys, "xhr", c, NoExpiry)
            /\ tokens' = [tokens EXCEPT ![calls[c].provider] = Obj(r.body.keys, "xhr", c, NoExpiry)]]_vars

\* C8 witness: an exchange resolved with the response's token and the store
\* holds it under the provider
C8_Witness ==
    \E c \in Calls :
        /\ calls[c].xhr = "loaded"
        /\ calls[c].promise = "resolved"
        /\ calls[c].value = Obj({"access_token"}, "xhr", c, NoExpiry)
        /\ tokens[calls[c].provider] = calls[c].value

C10_FaultEventuallyRejects ==
    /\ \A c \in Calls : (calls[c].xhr = "fault") ~> (calls[c].promise = "rejected")
    /\ [][\A c \in Calls, r \in Responses :
            (r.status = 200 /\ r.body.text = "malformed" /\ XhrLoad(c, r.status, r.body))
            => RejectsWith(c, IError("exception", Exception("SyntaxError")))]_vars

\* a call whose request ended in a transport fault stays pending
FaultedCallIsStuck ==
    \A c \in Calls : calls[c].xhr = "fault" => calls[c].promise = "pending"

\* the payload the application passes to exchangeCodeForToken in call c
CallerData(c) == Obj({"code"}, "caller", c, NoExpiry)

\* C11: for a provider whose endpoint has no tokenUrl, exchangeCodeForToken
\* resolves at once with the data it was given, unchanged, sends no request
\* and leaves the store alone.
C11_NoTokenUrlReturnsData ==
    [][\A c \in Calls, p \in Providers :
         (ExchangeCall(c, p) /\ endpoints[p] # Null /\ ~endpoints[p].tokenUrl)
         => /\ calls'[c].promise = "resolved"
            /\ calls'[c].value = CallerData(c)
            /\ calls'[c].xhr = "none"
            /\ "post" \notin {calls'[c].log[i] : i \in 1..Len(calls'[c].log)}
            /\ tokens' = tokens]_vars

\* C11 witness: an exchange for the provider without tokenUrl resolved with
\* the caller's data and no request
C11_Witness ==
    \E c \in Calls :
        /\ calls[c].api = "exchange"
        /\ endpoints[calls[c].provider] # Null
        /\ ~endpoints[calls[c].provider].tokenUrl
        /\ calls[c].promise = "resolved"
        /\ calls[c].value = CallerData(c)
        /\ calls[c].xhr = "none"

\* the store holds, under provider p, the token a successful code exchange
\* resolved with
HoldsExchangedToken(p) ==
    /\ tokens[p] # Null
    /\ tokens[p].from = "xhr"
    /\ \E d \in Calls :
        /\ calls[d].provider = p
        /\ calls[d].xhr = "loaded"
        /\ calls[d].promise = "resolved"
        /\ calls[d].value = tokens[p]

C13_ThrowingInspection ==
    /\ \A c \in Calls :
          (calls[c].win = "userClosed")
          ~> (~calls[c].timer /\ calls[c].promise = "rejected" /\ calls[c].value.kind = "IError")
    /\ [][\A c \in Calls :
            (PopupTick(c) /\ calls[c].win = "open" /\ calls[c].doc.kind = "login")
            => calls'[c] = calls[c] /\ tokens' = tokens]_vars

\* a call whose popup the user closed never changes again: its timer keeps
\* running and its promise stays pending
ClosedPopupIsStuck ==
    [][\A c \in Calls : calls[c].win = "userClosed"
          => calls'[c] = calls[c] /\ calls[c].timer /\ calls[c].promise = "pending"]_vars

\* the reason a tick rejects with when window.open gave no window
NoWindowError == IError("exception", Exception("TypeError"))

\* C14 as stated: when window.open yields no window, authenticate returns a
\* promise that is already rejected, and no timer is running.
C14_BlockedPopupRejectsAtOnce ==
    [][\A c \in Calls, p \in Providers, force \in BOOLEAN :
         (Authenticate(c, p, force) /\ calls'[c].win = "blocked")
         => calls'[c].promise = "rejected" /\ ~calls'[c].timer]_vars

\* C14 amended: when window.open yields no window, authenticate returns a
\* pending promise with the polling timer set; the first tick rejects it with
\* an error wrapping the exception and clears the timer, without touching the
\* store, and a call so rejected has no timer.
C14_BlockedPopupRejectsOnFirstTick ==
    [][\A c \in Calls :
         /\ (calls[c].api = "none" /\ calls'[c].win = "blocked")
               => calls'[c].promise = "pending" /\ calls'[c].timer
         /\ (calls[c].win = "blocked" /\ PopupTick(c))
               => ~calls'[c].timer /\ RejectsWith(c, NoWindowError)
         /\ calls'[c].win = "blocked"
               => (calls'[c].timer <=> calls'[c].promise = "pending")]_vars

\* C14 witness: a call whose popup did not open was rejected by a tick
C14_Witness ==
    \E c \in Calls :
        /\ calls[c].win = "blocked"
        /\ calls[c].promise = "rejected"
        /\ calls[c].value = NoWindowError
        /\ ~calls[c].timer

\* C15: when displayDialogAsync calls back without a dialog, or its callback
\* throws, the call is eventually rejected with an error: its promise does
\* not stay pending for ever.
C15_FailedDialogRejects ==
    \A c \in Calls :
        (calls[c].dialog = "failed")
        ~> (calls[c].promise = "rejected" /\ calls[c].value.kind = "IError")

\* a call whose dialog could not be opened stays pending
FailedDialogIsStuck ==
    \A c \in Calls : calls[c].dialog = "failed" => calls[c].promise = "pending"

\* the page URL carries an access_token, code or error parameter
CarriesResult(url) == url.params \cap {"access_token", "code", "error"} # {}

\* C16: isAuthDialog returns true and hands exactly one message, the JSON of
\* the parsed result, to the parent when the page runs inside the host and its
\* URL carries an access_token, code or error parameter; in every other case
\* it returns false and sends nothing.
C16_IsAuthDialogIff ==
    [][IsAuthDialog =>
          IF isAddin /\ CarriesResult(location)
          THEN /\ returned' = "true"
               /\ sent' = Append(sent, [kind |-> "message", text |-> "object",
                                         keys |-> location.params])
          ELSE /\ returned' = "false"
               /\ sent' = sent]_vars

\* outside the host isAuthDialog returns false and sends nothing; inside, a
\* URL with a result parameter gets true and one message with the result
IsAuthDialogOneWay ==
    [][IsAuthDialog =>
          /\ ~isAddin => returned' = "false" /\ sent' = sent
          /\ (isAddin /\ CarriesResult(location))
             => /\ returned' = "true"
                /\ sent' = Append(sent, [kind |-> "message", text |-> "object",
                                          keys |-> location.params])]_vars

\* this step sends a code-exchange request on behalf of call c
Posts(c) ==
    \/ calls[c].xhr = "none" /\ calls'[c].xhr = "sent"
    \/ calls'[c].detached > calls[c].detached

\* this step opens, or asks the host to open, a surface for call c
OpensSurface(c) ==
    \/ calls[c].win # calls'[c].win /\ calls'[c].win \in {"open", "blocked"}
    \/ calls[c].dialog # calls'[c].dialog /\ calls'[c].dialog \in {"opening", "open"}

\* call c has had a surface that yielded a result or failed
SurfaceDone(call) ==
    \/ call.win \in {"closed", "userClosed", "blocked"}
    \/ call.dialog \in {"closed", "userClosed", "failed"}

\* one authenticate call has one surface at most, and a surface that is done
\* is not followed by another
OneSurface ==
    [][\A c \in Calls :
         /\ calls'[c].win = "none" \/ calls'[c].dialog = "none"
         /\ SurfaceDone(calls[c]) => ~OpensSurface(c)
         /\ (calls[c].win # "none" \/ calls[c].dialog \notin {"none", "opening"})
            => ~OpensSurface(c)]_vars

\* C17: one authenticate call opens one surface at most and does not open
\* another once that surface yielded a result or failed, and it sends at most
\* one code-exchange request.
C17_OneSurfaceOnePost ==
    [][\A c \in Calls :
         calls'[c].api = "authenticate" =>
            /\ calls'[c].win = "none" \/ calls'[c].dialog = "none"
            /\ SurfaceDone(calls[c]) => ~OpensSurface(c)
            /\ Posts(c) => Positions(calls[c].log, "post") = {}]_vars

C19_RejectedCallWroteNothing ==
    \A c \in Calls :
        calls[c].promise = "rejected" => Positions(calls[c].log, "store") = {}

\* the step in which a call is rejected leaves the store alone, and a call
\* without a dialog has written nothing up to then
RejectionLeavesStore ==
    [][\A c \in Calls :
         (calls[c].promise # "rejected" /\ calls'[c].promise = "rejected")
         => /\ tokens' = tokens
            /\ calls[c].dialog = "none" => Positions(calls[c].log, "store") = {}]_vars

\* this step changes the store on behalf of call c
StoreChangedBy(c) == tokens' # tokens /\ WritesStore(c)

\* the surface of the call has delivered its first result to the call: the
\* timer was cleared with the popup closed, or the dialog was closed by the
\* message handler
FirstResultHandled(call) ==
    \/ call.win = "closed" /\ ~call.timer
    \/ call.dialog = "closed"

\* C20: one authenticate call changes the store at most once and not after
\* its promise settled; once the first result of its surface was handled, a
\* later tick or a further dialog message changes neither the store nor
\* starts another exchange.
C20_WritesOnceBeforeSettling ==
    [][\A c \in Calls :
         calls[c].api = "authenticate" =>
            /\ StoreChangedBy(c)
               => ~Settled(calls[c]) /\ Positions(calls[c].log, "store") = {}
            /\ (FirstResultHandled(calls[c])
                  /\ (PopupTick(c) \/ \E msg \in Messages : DialogMessage(c, msg)))
               => tokens' = tokens /\ ~Posts(c)]_vars

\* what C20 says holds for a call that uses the popup
PopupWritesOnceBeforeSettling ==
    [][\A c \in Calls :
         (calls[c].api = "authenticate" /\ calls[c].dialog = "none") =>
            /\ StoreChangedBy(c)
               => ~Settled(calls[c]) /\ Positions(calls[c].log, "store") = {}
            /\ (FirstResultHandled(calls[c]) /\ PopupTick(c))
               => tokens' = tokens /\ ~Posts(c)]_vars

====
